---- MODULE Spec2Model ----
(***************************************************************************)
(* Model of the cardano_marketplace backend: the coin selector and the     *)
(* fee-convergence loop of coin.rs, and the sell / buy / cancel /          *)
(* project-buy / mint transaction templates built on them.                 *)
(*                                                                         *)
(* Amounts are lovelace.  The program constants keep their values.  The    *)
(* 64-bit BigNum / u64 of the program is modelled with WordBits bits       *)
(* (TLC's integers are 32-bit): every checked operation tests against      *)
(* U64_MAX == 2^WordBits - 1 exactly as the program tests against 2^64-1.  *)
(***************************************************************************)
EXTENDS Integers, Sequences, FiniteSets, TLC

(***************************************************************************)
(* Program constants                                                       *)
(***************************************************************************)
MAX_TRIES == 10
ONE_ADA == 1000000
SELL_DEPOSIT == 2000000
PROJECT_REVENUE_CUT == 1500000
PROJECT_NFT_COIN == 2000000
SELL_VKEY_COUNT == 1
BUY_VKEY_COUNT == 2
CANCEL_VKEY_COUNT == 2
PROJECT_VKEY_COUNT == 2
MINT_VKEY_COUNT == 2
MARKETPLACE_METADATA_LABEL_KEY == 888
ADDR_CHUNK == 64

(***************************************************************************)
(* Bounds of the model                                                     *)
(***************************************************************************)
WordBits == 28
MaxPool == 3

U64_MAX == 2^WordBits - 1

Max(a, b) == IF a >= b THEN a ELSE b

(***************************************************************************)
(* BigNum / u64 arithmetic.  checked_add and checked_sub return an error   *)
(* on overflow / underflow; a record [ok, v] stands for the Result.        *)
(***************************************************************************)
checked_add(a, b) ==
    IF a > U64_MAX - b THEN [ok |-> FALSE, v |-> 0] ELSE [ok |-> TRUE, v |-> a + b]

checked_sub(a, b) ==
    IF a < b THEN [ok |-> FALSE, v |-> 0] ELSE [ok |-> TRUE, v |-> a - b]

\* native u64 `a - b` and `a + b` of a build without overflow checks
wrapping_sub(a, b) == IF a >= b THEN a - b ELSE a + (U64_MAX - b) + 1

wrapping_add(a, b) == IF a > U64_MAX - b THEN a - (U64_MAX - b) - 1 ELSE a + b

(***************************************************************************)
(* Value model.  A multiasset is a function from asset ids <<policy,name>> *)
(* to positive quantities; hasMa tells Some(multiasset) from None.         *)
(***************************************************************************)
MintPolicy == "PM"
Policies == {"P1", "P2", MintPolicy}
AssetNames == {"A", "B"}
AssetIds == Policies \X AssetNames

EmptyMA == [a \in {} |-> 0]

\* AssetName::name().len(): the byte length of an asset name
NameLen(n) == IF n = "A" THEN 4 ELSE 9

MaPolicies(ma) == {a[1] : a \in DOMAIN ma}

\* MultiAsset::len(): the number of policies
MaLen(ma) == Cardinality(MaPolicies(ma))

\* MultiAsset::sub: quantities subtracted, entries that reach zero removed
MaSub(l, r) ==
    LET q(a) == IF a \in DOMAIN r THEN l[a] - r[a] ELSE l[a]
        keep == {a \in DOMAIN l : q(a) > 0}
    IN [a \in keep |-> q(a)]

RECURSIVE SumOver(_, _)
SumOver(S, f) ==
    IF S = {} THEN 0
    ELSE LET x == CHOOSE y \in S : TRUE IN f[x] + SumOver(S \ {x}, f)

RoundupBytesToWords(b) == (b + 7) \div 8

\* bundle_size of the ledger library: 6 + words(12 * assets + name bytes + 28 * policies)
BundleSize(ma) ==
    LET names == {a[2] : a \in DOMAIN ma}
    IN 6 + RoundupBytesToWords(12 * Cardinality(DOMAIN ma)
                               + SumOver(names, [n \in names |-> NameLen(n)])
                               + 28 * MaLen(ma))

\* min_ada_required(value, minimum_utxo_value)
min_ada_required(v, minUtxo) ==
    IF ~v.hasMa THEN minUtxo
    ELSE Max(minUtxo, (minUtxo \div 27) * (27 + BundleSize(v.ma)))

(***************************************************************************)
(* Addresses.  Bech32Len is the length of the bech32 text of an address    *)
(* (enterprise addresses are shorter than base addresses); AddrBytes the   *)
(* length of its binary form.                                              *)
(***************************************************************************)
HolderAddr == "holder"
RevenueAddr == "revenue"
ProjectHolderAddr == "pholder"
TaxAddr == "tax"
Users == {"alice", "bob"}

\* the addresses a request can name as its caller: a request carries any
\* address text, the holder's own address included
Callers == Users \cup {HolderAddr}
Addresses == Users \cup {HolderAddr, RevenueAddr, ProjectHolderAddr, TaxAddr}

IsEnterprise(addr) == addr \in {HolderAddr, ProjectHolderAddr}

Bech32Len(addr) == IF IsEnterprise(addr) THEN 58 ELSE 103

AddrBytes(addr) == IF IsEnterprise(addr) THEN 29 ELSE 57

(***************************************************************************)
(* Transaction outputs and unspent outputs                                 *)
(***************************************************************************)
\* TransactionOutput::new(address, value), with an optional data hash (0: none)
TxOut(addr, coin, hasMa, ma, dh) ==
    [addr |-> addr, coin |-> coin, hasMa |-> hasMa, ma |-> ma, dh |-> dh]

\* utxo.output()
OutputOf(u) == TxOut(u.addr, u.coin, u.hasMa, u.ma, u.dh)

\* set_output_lovelace: same address, assets and data hash, new coin
set_output_lovelace(output, new_lovelace) ==
    TxOut(output.addr, new_lovelace, output.hasMa, output.ma, output.dh)

\* utxos.sort_by_key(|utxo| coin): stable ascending insertion
InsertByCoin(sorted, u) ==
    LET k == Cardinality({i \in 1..Len(sorted) : sorted[i].coin <= u.coin})
    IN SubSeq(sorted, 1, k) \o <<u>> \o SubSeq(sorted, k + 1, Len(sorted))

\* mutant: the pool is taken in the order given
sort_by_coin_skipped(s) == s

RECURSIVE sort_by_coin(_)
sort_by_coin(s) ==
    IF s = <<>> THEN <<>>
    ELSE InsertByCoin(sort_by_coin(SubSeq(s, 1, Len(s) - 1)), s[Len(s)])

(***************************************************************************)
(* Output normalizer: calculate_output_amount                              *)
(***************************************************************************)
\* mutant: an output below its minimum is kept as requested
NormalizeStepAsRequested(acc, output, min_utxo_value) ==
    [ok |-> acc.ok, outs |-> Append(acc.outs, output),
     total |-> checked_add(acc.total, output.coin).v]

\* one step of the loop body: acc = [ok, outs, total]
NormalizeStep(acc, output, min_utxo_value) ==
    LET min_lovelace == min_ada_required(output, min_utxo_value)
        raised == output.coin < min_lovelace
        sum == checked_add(acc.total, IF raised THEN min_lovelace ELSE output.coin)
        newOut == IF raised THEN set_output_lovelace(output, min_lovelace) ELSE output
    IN IF ~acc.ok \/ ~sum.ok
       THEN [ok |-> FALSE, outs |-> acc.outs, total |-> acc.total]
       ELSE [ok |-> TRUE, outs |-> Append(acc.outs, newOut), total |-> sum.v]

RECURSIVE NormalizeFrom(_, _, _, _)
NormalizeFrom(outputs, i, acc, min_utxo_value) ==
    IF i > Len(outputs) THEN acc
    ELSE NormalizeFrom(outputs, i + 1, NormalizeStep(acc, outputs[i], min_utxo_value),
                       min_utxo_value)

calculate_output_amount(outputs, fees, min_utxo_value) ==
    NormalizeFrom(outputs, 1, [ok |-> TRUE, outs |-> <<>>, total |-> fees], min_utxo_value)

(***************************************************************************)
(* Coin selector: largest_first_coin_selection.  The TransactionBuilder is *)
(* the record b = [inputs, outputs, selected, total, popped]; add_input    *)
(* and add_output append.  (add_output's own minimum-coin test is not      *)
(* assumed: MinCoinRespected shows every output handed to it passes.)      *)
(***************************************************************************)
ErrBalance == "BalanceInsufficient"
ErrJs == "JsError"

SelResult(ok, err, b, last) ==
    [ok |-> ok, err |-> err, inputs |-> b.inputs, outputs |-> b.outputs,
     selected |-> b.selected, total |-> b.total, popped |-> b.popped, last |-> last]

\* selected_amount seeded with the coin of the mandatory inputs (checked_add)
RECURSIVE SumInputs(_, _, _)
SumInputs(inputs, i, acc) ==
    IF i > Len(inputs) \/ ~acc.ok THEN acc
    ELSE SumInputs(inputs, i + 1, checked_add(acc.v, inputs[i].coin))

SeedSelected(inputs) == SumInputs(inputs, 1, [ok |-> TRUE, v |-> 0])

\* mutant: the whole coin of an asset-bearing candidate is counted
ContributionWhole(utxo, min_amount) == [ok |-> TRUE, v |-> utxo.coin]

\* mutant: an asset-bearing candidate below its minimum contributes nothing
ContributionFloored(utxo, min_amount) ==
    IF utxo.hasMa THEN [ok |-> TRUE, v |-> Max(0, utxo.coin - min_amount)]
    ELSE [ok |-> TRUE, v |-> utxo.coin]

\* coin a popped candidate adds to selected_amount: all of it, or what exceeds
\* the minimum left with its assets
Contribution(utxo, min_amount) ==
    IF utxo.hasMa THEN checked_sub(utxo.coin, min_amount) ELSE [ok |-> TRUE, v |-> utxo.coin]

\* mutant: the assets of a consumed candidate are not re-issued
PreserveAssetsDropped(outputs, utxo, min_amount) == outputs

\* outputs after a candidate is popped: an asset-bearing one is re-issued
PreserveAssets(outputs, utxo, min_amount) ==
    IF utxo.hasMa
    THEN Append(outputs, set_output_lovelace(OutputOf(utxo), min_amount))
    ELSE outputs

\* min_ada_required(&Value::new(&minimum_utxo_value), &minimum_utxo_value)
ChangeFloor(min_utxo_value) ==
    min_ada_required([coin |-> min_utxo_value, hasMa |-> FALSE, ma |-> EmptyMA],
                     min_utxo_value)

\* mutant: the change floor is not tested
StopConditionNoFloor(selected, total, change_amount) == selected >= total

\* mutant: the floor is added on the wrong side of the comparison
StopConditionSlip(selected, total, change_amount) == selected + change_amount >= total

\* the test that ends the loop with success
StopCondition(selected, total, change_amount) ==
    /\ selected >= total
    /\ ~(checked_sub(selected, total).v < change_amount)

\* mutant: the change is the whole selected amount
ChangeOutputWhole(utxo, selected, total) == TxOut(utxo.addr, selected, FALSE, EmptyMA, 0)

\* the change output: what is selected beyond the total, to the owner of the last
\* candidate popped
ChangeOutput(utxo, selected, total) ==
    TxOut(utxo.addr, checked_sub(selected, total).v, FALSE, EmptyMA, 0)

RECURSIVE SelectLoop(_, _, _)
SelectLoop(utxos, b, min_utxo_value) ==
    IF utxos = <<>> THEN SelResult(FALSE, ErrBalance, b, "")
    ELSE
      LET utxo == utxos[Len(utxos)]
          rest == SubSeq(utxos, 1, Len(utxos) - 1)
          min_amount == min_ada_required(OutputOf(utxo), min_utxo_value)
          extracted == Contribution(utxo, min_amount)
          sum == checked_add(b.selected, extracted.v)
          b1 == [b EXCEPT !.inputs = Append(@, utxo),
                          !.outputs = PreserveAssets(@, utxo, min_amount),
                          !.selected = sum.v,
                          !.popped = @ + 1]
      IN IF ~extracted.ok THEN SelResult(FALSE, ErrBalance, b, "")
         ELSE IF ~sum.ok THEN SelResult(FALSE, ErrJs, b, "")
         ELSE IF StopCondition(b1.selected, b1.total, ChangeFloor(min_utxo_value))
         THEN SelResult(TRUE, "",
                        [b1 EXCEPT !.outputs =
                             Append(@, ChangeOutput(utxo, b1.selected, b1.total))],
                        utxo.addr)
         ELSE SelectLoop(rest, b1, min_utxo_value)

\* mutant: the stop test is also made on the mandatory inputs alone
largest_first_coin_selection_seeded(outputs, inputs, utxos, fees, params) ==
    LET sorted == sort_by_coin(utxos)
        norm == calculate_output_amount(outputs, fees, params.minUtxo)
        seed == SeedSelected(inputs)
        b0 == [inputs |-> inputs, outputs |-> norm.outs, selected |-> seed.v,
               total |-> norm.total, popped |-> 0]
    IN IF ~norm.ok \/ ~seed.ok THEN SelResult(FALSE, ErrJs, b0, "")
       ELSE IF inputs # <<>> /\ StopCondition(seed.v, norm.total, ChangeFloor(params.minUtxo))
       THEN SelResult(TRUE, "",
                      [b0 EXCEPT !.outputs =
                           Append(@, ChangeOutput(inputs[1], seed.v, norm.total))],
                      inputs[1].addr)
       ELSE SelectLoop(sorted, b0, params.minUtxo)

largest_first_coin_selection(outputs, inputs, utxos, fees, params) ==
    LET sorted == sort_by_coin(utxos)
        norm == calculate_output_amount(outputs, fees, params.minUtxo)
        seed == SeedSelected(inputs)
        b0 == [inputs |-> inputs, outputs |-> norm.outs, selected |-> seed.v,
               total |-> norm.total, popped |-> 0]
    IN IF ~norm.ok \/ ~seed.ok THEN SelResult(FALSE, ErrJs, b0, "")
       ELSE SelectLoop(sorted, b0, params.minUtxo)

(***************************************************************************)
(* Auxiliary data, mint, witnesses                                         *)
(***************************************************************************)
\* the i-th character of the bech32 text of an address
AddrCode(addr) ==
    CASE addr = "alice" -> 1 [] addr = "bob" -> 2 [] addr = HolderAddr -> 3
      [] addr = RevenueAddr -> 4 [] addr = ProjectHolderAddr -> 5 [] OTHER -> 6

to_bech32(addr) == [i \in 1..Bech32Len(addr) |-> (AddrCode(addr) * 5 + i * AddrCode(addr)) % 32]

\* chars().chunks(64): consecutive pieces of at most n characters
RECURSIVE Chunks(_, _)
Chunks(text, n) ==
    IF Len(text) = 0 THEN <<>>
    ELSE IF Len(text) <= n THEN <<text>>
    ELSE <<SubSeq(text, 1, n)>> \o Chunks(SubSeq(text, n + 1, Len(text)), n)

\* v.join("")
RECURSIVE Join(_)
Join(chunks) == IF chunks = <<>> THEN <<>> ELSE Head(chunks) \o Join(Tail(chunks))

NoAux == [kind |-> "none", label |-> 0, price |-> 0, seller_address |-> <<>>]

\* SellMetadata::create_sell_nft_metadata: label 888 -> {price, seller_address: [chunks]}
create_sell_nft_metadata(seller_address, price) ==
    [kind |-> "sale", label |-> MARKETPLACE_METADATA_LABEL_KEY, price |-> price,
     seller_address |-> Chunks(to_bech32(seller_address), ADDR_CHUNK)]

\* the NFT builder's metadata block (label 721)
MintAux == [kind |-> "mint", label |-> 721, price |-> 0, seller_address |-> <<>>]

NoMeta == [present |-> FALSE, price |-> 0, seller_address |-> <<>>]

\* the JSON db-sync stores for the metadata of a transaction
MetaJson(aux) ==
    IF aux.kind = "sale"
    THEN [present |-> TRUE, price |-> aux.price, seller_address |-> aux.seller_address]
    ELSE NoMeta

\* None of Option<SellMetadata>
NoListing == [some |-> FALSE, seller_address |-> "", price |-> 0]

\* SellMetadata::try_from_value: the chunks joined and parsed as an address
try_from_value(json) ==
    LET text == Join(json.seller_address)
        found == {a \in Addresses : to_bech32(a) = text}
    IN IF json.present /\ found # {}
       THEN [some |-> TRUE, seller_address |-> CHOOSE a \in found : TRUE, price |-> json.price]
       ELSE NoListing

NoMint == [present |-> FALSE, asset |-> <<"", "">>]

(***************************************************************************)
(* Fee of a draft transaction: min_fee = coefficient * bytes + constant.   *)
(* The byte length follows the CBOR layout of the ledger library: an       *)
(* unsigned integer takes 1, 2, 3 or 5 bytes depending on its magnitude.   *)
(***************************************************************************)
UIntLen(n) == IF n < 24 THEN 1 ELSE IF n < 256 THEN 2 ELSE IF n < 65536 THEN 3 ELSE 5

MaBytes(ma) ==
    LET pols == MaPolicies(ma)
        assetBytes == [a \in DOMAIN ma |-> 1 + NameLen(a[2]) + UIntLen(ma[a])]
    IN 1 + 31 * Cardinality(pols) + SumOver(DOMAIN ma, assetBytes)

ValueBytes(o) == IF o.hasMa THEN 1 + UIntLen(o.coin) + MaBytes(o.ma) ELSE UIntLen(o.coin)

OutputBytes(o) == 3 + AddrBytes(o.addr) + ValueBytes(o) + (IF o.dh # 0 THEN 34 ELSE 0)

RECURSIVE OutputsBytes(_)
OutputsBytes(outs) ==
    IF outs = <<>> THEN 0 ELSE OutputBytes(Head(outs)) + OutputsBytes(Tail(outs))

InputBytes == 37

AuxBytes(aux) ==
    CASE aux.kind = "none" -> 1
      [] aux.kind = "mint" -> 120
      [] OTHER -> 28 + UIntLen(aux.price)
                  + SumOver(DOMAIN aux.seller_address,
                            [i \in DOMAIN aux.seller_address |-> 2 + Len(aux.seller_address[i])])

BodyBytes(body) ==
    1 + (2 + InputBytes * Len(body.inputs)) + (2 + OutputsBytes(body.outputs))
      + (1 + UIntLen(body.fee)) + 6
      + (IF body.aux_hash THEN 35 ELSE 0)
      + (IF body.mint.present THEN 36 + NameLen(body.mint.asset[2]) ELSE 0)

WitnessBytes(w) ==
    1 + (IF w.vkey_count > 0 THEN 2 + 101 * w.vkey_count ELSE 0)
      + (IF w.native_scripts THEN 45 ELSE 0)

TxBytes(body, w, aux) == 1 + BodyBytes(body) + WitnessBytes(w) + AuxBytes(aux)

\* min_fee(&tx, &linear_fee): checked_mul, then checked_add
min_fee(body, w, aux, params) ==
    LET bytes == TxBytes(body, w, aux)
    IN IF params.a > 0 /\ bytes > U64_MAX \div params.a THEN [ok |-> FALSE, v |-> 0]
       ELSE checked_add(bytes * params.a, params.b)

calculate_maximum_fees(params) == params.a

\* the placeholder signing key, generated once per process
PRIVATE_KEY == "placeholder"

\* create_n_vkey_witnesses: n signatures made with the placeholder key
create_n_vkey_witnesses(n) == [i \in 1..n |-> PRIVATE_KEY]

\* create_dummy_tx_witness_set
create_dummy_tx_witness_set(w) ==
    [vkeys |-> create_n_vkey_witnesses(w.vkey_count), native_scripts |-> w.native_scripts]

(***************************************************************************)
(* State                                                                   *)
(***************************************************************************)
VARIABLES
    ledger,     \* the unspent outputs db-sync knows, a set of UTXO records
    params,     \* the protocol parameters db-sync returns
    req,        \* the request being served
    pc,         \* "idle", "loop" (inside build_transaction_body) or "done"
    call,       \* the arguments of the running build_transaction_body
    fees,       \* its local variable fees
    tries,      \* the number of loop iterations started
    sel,        \* the outcome of the latest run of the selector
    result,     \* what the request returned
    effects,    \* the queries, selections and signatures made for the request
    sell_metadata,  \* the listing the request read from the holder, if any
    submitted,  \* the transaction POST /sign handed to the submitter, if any
    confirmed   \* the operations whose transactions the ledger has accepted, in order

vars == <<ledger, params, req, pc, call, fees, tries, sel, result, effects, sell_metadata,
          submitted, confirmed>>

NoBody == [inputs |-> <<>>, outputs |-> <<>>, fee |-> 0, aux_hash |-> FALSE, mint |-> NoMint]
NoTx == [body |-> NoBody, vkeys |-> <<>>, native_scripts |-> FALSE, aux |-> NoAux]
NoResult == [kind |-> "none", err |-> "", tx |-> NoTx]
NoSel == [ran |-> FALSE, fee |-> 0, calc |-> 0,
          witness_set |-> [vkeys |-> <<>>, native_scripts |-> FALSE],
          r |-> SelResult(FALSE, "",
                          [inputs |-> <<>>, outputs |-> <<>>, selected |-> 0,
                           total |-> 0, popped |-> 0], "")]
NoCall == [utxos |-> <<>>, inputs |-> <<>>, outputs |-> <<>>, fee0 |-> -1, mint |-> NoMint,
           witness |-> [vkey_count |-> 1, native_scripts |-> FALSE], aux |-> NoAux]
NoReq == [op |-> "none", caller |-> "", asset |-> <<"", "">>, price |-> 0]

Failed(err) == [kind |-> "err", err |-> err, tx |-> NoTx]

\* a panic unwinds out of the handler: no value is returned
Panicked == [kind |-> "panic", err |-> "", tx |-> NoTx]

(***************************************************************************)
(* build_transaction_body: one iteration of its loop per step              *)
(***************************************************************************)
\* mutant: the fees argument is ignored
InitialFeesIgnored(fee0, p) == calculate_maximum_fees(p)

\* fees.unwrap_or_else(|| calculate_maximum_fees(protocol_params)); fee0 = -1 is None
InitialFees(fee0, p) == IF fee0 < 0 THEN calculate_maximum_fees(p) ELSE fee0

\* tx_builder.build() after set_auxiliary_data, then set_mint
BuildBody(s, fee, c) ==
    [inputs |-> s.inputs, outputs |-> s.outputs, fee |-> fee,
     aux_hash |-> c.aux.kind # "none", mint |-> c.mint]

\* build() refuses a transaction larger than max_tx_size
BuildFits(body, c, p) ==
    TxBytes(body,
            [vkey_count |-> Cardinality({body.inputs[i].addr : i \in DOMAIN body.inputs}),
             native_scripts |-> FALSE],
            c.aux) <= p.maxTxSize

\* mutant: a computed fee below the assumed one is accepted
FeeConvergedLoose(calculated_fees, assumed) == calculated_fees <= assumed

\* calculated_fees.eq(&fees)
FeeConverged(calculated_fees, assumed) == calculated_fees = assumed

\* mutant: an inclusive range, one iteration more
LoopExhaustedLate(n) == n > MAX_TRIES

\* for _ in 0..MAX_TRIES: no iteration is left after n of them
LoopExhausted(n) == n >= MAX_TRIES

\* mutant: the witness set made for the fee computation is kept
FinishTxKeepsDummy(r, c, body) ==
    [body |-> body, vkeys |-> create_dummy_tx_witness_set(c.witness).vkeys,
     native_scripts |-> c.witness.native_scripts, aux |-> c.aux]

\* what the template does with the body build_transaction_body returned
FinishTx(r, c, body) ==
    CASE r.op = "sell" ->
           [body |-> body, vkeys |-> <<>>, native_scripts |-> FALSE, aux |-> c.aux]
      [] r.op \in {"buy", "cancel"} ->
           [body |-> body, vkeys |-> <<"holder">>, native_scripts |-> FALSE, aux |-> NoAux]
      [] r.op = "project_buy" ->
           [body |-> body, vkeys |-> <<"project_holder">>, native_scripts |-> FALSE,
            aux |-> c.aux]
      [] r.op = "mint" ->
           [body |-> body, vkeys |-> <<"policy">>, native_scripts |-> TRUE, aux |-> MintAux]
      [] OTHER ->
           [body |-> body, vkeys |-> <<>>, native_scripts |-> FALSE, aux |-> c.aux]

FinishEffects(r) ==
    IF r.op \in {"buy", "cancel", "project_buy"} THEN {"holder_sign"} ELSE {}

\* mutant: an error of the builder or of the fee function is not propagated
IterationFailureSelectorOnly(s, fits, calc) == IF ~s.ok THEN s.err ELSE ""

\* the `?` of one iteration: the error of the selector (normalizer included), of
\* tx_builder.build() or of min_fee, "" when none
IterationFailure(s, fits, calc) ==
    IF ~s.ok THEN s.err
    ELSE IF ~fits \/ ~calc.ok THEN ErrJs
    ELSE ""

Iterate ==
    /\ pc = "loop"
    /\ ~LoopExhausted(tries)
    /\ LET s == largest_first_coin_selection(call.outputs, call.inputs, call.utxos,
                                             fees, params)
           body == BuildBody(s, fees, call)
           calc == min_fee(body, call.witness, call.aux, params)
           failure == IterationFailure(s, BuildFits(body, call, params), calc)
           converged == failure = "" /\ FeeConverged(calc.v, fees)
       IN /\ tries' = tries + 1
          /\ sel' = [ran |-> TRUE, fee |-> fees, calc |-> IF failure = "" THEN calc.v ELSE 0,
                     witness_set |-> IF s.ok /\ BuildFits(body, call, params)
                                     THEN create_dummy_tx_witness_set(call.witness)
                                     ELSE NoSel.witness_set,
                     r |-> s]
          /\ effects' = effects \cup {"select"}
                          \cup (IF converged THEN FinishEffects(req) ELSE {})
          /\ IF failure # ""
             THEN /\ result' = Failed(failure)
                  /\ pc' = "done"
                  /\ fees' = fees
             ELSE IF converged
             THEN /\ result' = [kind |-> "ok", err |-> "", tx |-> FinishTx(req, call, body)]
                  /\ pc' = "done"
                  /\ fees' = fees
             ELSE IF LoopExhausted(tries + 1)
             THEN /\ result' = Failed(ErrBalance)
                  /\ pc' = "done"
                  /\ fees' = calc.v
             ELSE /\ result' = result
                  /\ pc' = "loop"
                  /\ fees' = calc.v
    /\ UNCHANGED <<ledger, params, req, call, sell_metadata, submitted, confirmed>>

(***************************************************************************)
(* Specification SpecSel: build_transaction_body called directly, its      *)
(* arguments drawn from bounded sets.                                      *)
(***************************************************************************)
Utxo(id, addr, coin, hasMa, ma, dh) ==
    [id |-> id, addr |-> addr, coin |-> coin, hasMa |-> hasMa, ma |-> ma, dh |-> dh,
     meta |-> NoMeta]

NFT == <<"P1", "A">>
Token == <<"P2", "B">>

OneOf(asset) == [a \in {asset} |-> 1]

SmallParams == [a |-> 1, b |-> 10, minUtxo |-> 100, maxTxSize |-> 16384]
MainnetParams == [a |-> 44, b |-> 155381, minUtxo |-> 1000000, maxTxSize |-> 16384]

\* parameters under which the larger transactions exceed max_tx_size
TightParams == [MainnetParams EXCEPT !.maxTxSize = 600]

\* parameters whose fee coefficient makes coefficient * bytes overflow
SteepParams == [MainnetParams EXCEPT !.a = 2 ^ (WordBits - 8), !.b = 0]

TemplateParams == {MainnetParams, TightParams, SteepParams}

SelCoins == {110, 485, 1500}

\* the candidates a pool is made of: (coin, carries a token)
SelCandidates == SelCoins \X BOOLEAN

SelPools ==
    UNION {[1..n -> SelCandidates] : n \in 0..MaxPool}

PoolOf(p) ==
    [i \in DOMAIN p |->
        Utxo(i, "alice", p[i][1], p[i][2], IF p[i][2] THEN OneOf(Token) ELSE EmptyMA, 0)]

SelMandatory ==
    {<<>>,
     <<Utxo(10, HolderAddr, 200, TRUE, OneOf(NFT), 0)>>,
     <<Utxo(11, "bob", 1000, FALSE, EmptyMA, 0)>>}

SelOutputs ==
    {<<>>,
     <<TxOut("bob", 0, TRUE, OneOf(NFT), 0)>>,
     <<TxOut(RevenueAddr, 150, FALSE, EmptyMA, 0), TxOut("bob", 50, FALSE, EmptyMA, 1)>>,
     <<TxOut("bob", U64_MAX, FALSE, EmptyMA, 0)>>}

SelFees == {-1, 300}

InitSel ==
    /\ ledger = {}
    /\ params = SmallParams
    /\ req = [NoReq EXCEPT !.op = "build"]
    /\ pc = "loop"
    /\ \E p \in SelPools, m \in SelMandatory, o \in SelOutputs, f \in SelFees :
          /\ call = [utxos |-> PoolOf(p), inputs |-> m, outputs |-> o, fee0 |-> f,
                     mint |-> NoMint,
                     witness |-> [vkey_count |-> 1, native_scripts |-> FALSE],
                     aux |-> NoAux]
          /\ fees = InitialFees(f, params)
    /\ tries = 0
    /\ sel = NoSel
    /\ result = NoResult
    /\ effects = {}
    /\ sell_metadata = NoListing
    /\ submitted = NoTx
    /\ confirmed = <<>>

\* build_transaction_body called again with the same arguments and the fee the
\* first call returned; result keeps the first call's value until this one ends
Rebuild ==
    /\ pc = "done"
    /\ req.op = "build"
    /\ result.kind = "ok"
    /\ req' = [req EXCEPT !.op = "rebuild"]
    /\ call' = [call EXCEPT !.fee0 = result.tx.body.fee]
    /\ fees' = InitialFees(result.tx.body.fee, params)
    /\ tries' = 0
    /\ pc' = "loop"
    /\ UNCHANGED <<ledger, params, sel, result, effects, sell_metadata, submitted, confirmed>>

NextSel == Iterate \/ Rebuild

SpecSel == InitSel /\ [][NextSel]_vars

(***************************************************************************)
(* Ledger queries (cardano_db_sync) and the marketplace holder             *)
(***************************************************************************)
ErrNoSuchNft == "No such NFT is for sale"
ErrNotSeller == "Only the seller can cancel the listing"

UtxosAt(l, addr) == {u \in l : u.addr = addr}

\* every order in which the rows of a set of UTXOs can come back (the query
\* collects them in a HashMap, whose iteration order is arbitrary)
Orders(S) ==
    {f \in [1..Cardinality(S) -> S] : \A i, j \in 1..Cardinality(S) : f[i] = f[j] => i = j}

\* the asset lookup of find_nft: multiasset.get(policy).get(name).is_some()
HoldsAsset(u, asset) == u.hasMa /\ asset \in DOMAIN u.ma

\* find_nft: the last UTXO holding the asset, and the UTXOs not holding it
RECURSIVE FindNftFrom(_, _, _, _)
FindNftFrom(utxos, i, asset, acc) ==
    IF i > Len(utxos) THEN acc
    ELSE FindNftFrom(utxos, i + 1, asset,
                     IF HoldsAsset(utxos[i], asset)
                     THEN [acc EXCEPT !.found = TRUE, !.nft = utxos[i]]
                     ELSE [acc EXCEPT !.remaining = Append(@, utxos[i])])

NoUtxo == [id |-> 0, addr |-> "", coin |-> 0, hasMa |-> FALSE, ma |-> EmptyMA, dh |-> 0,
           meta |-> NoMeta]

find_nft(utxos, asset) ==
    FindNftFrom(utxos, 1, asset, [found |-> FALSE, nft |-> NoUtxo, remaining |-> <<>>])

\* query_user_address_utxo: the unspent outputs at an address, in any order
query_user_address_utxo(l, addr) == Orders(UtxosAt(l, addr))

\* the rows of MarketplaceHolder::get_nft_details: unspent outputs at the holder
\* address that carry the asset and whose transaction has metadata under key 888
ListingRows(l, holder, asset) ==
    {u \in UtxosAt(l, holder) : HoldsAsset(u, asset) /\ u.meta.present}

\* get_nft_details: fetch_optional takes one row (any of them), parsed by
\* try_from_value; the set of the values it can return
get_nft_details(l, holder, asset) ==
    IF ListingRows(l, holder, asset) = {} THEN {NoListing}
    ELSE {try_from_value(u.meta) : u \in ListingRows(l, holder, asset)}

\* mutant: any caller passes for the seller
IsSellerAny(listing, caller) == TRUE

\* sell_metadata.seller_address.to_bytes() == seller_address.to_bytes()
IsSeller(listing, caller) == listing.seller_address = caller

(***************************************************************************)
(* Revenue cuts.  The arithmetic is native u64: with overflow checks an    *)
(* overflow panics, without them it wraps.                                 *)
(***************************************************************************)
NativeSub(a, b, checks) ==
    IF a < b /\ checks THEN [panic |-> TRUE, v |-> 0]
    ELSE [panic |-> FALSE, v |-> wrapping_sub(a, b)]

NativeAdd(a, b, checks) ==
    IF a > U64_MAX - b /\ checks THEN [panic |-> TRUE, v |-> 0]
    ELSE [panic |-> FALSE, v |-> wrapping_add(a, b)]

\* marketplace::calculate_cuts
calculate_cuts(price, checks) ==
    LET one_percent == price \div 100
        revenue_cut == Max(one_percent * 2, ONE_ADA)
        rest == NativeSub(price, revenue_cut, checks)
        seller_cut == NativeAdd(rest.v, ONE_ADA * 2, checks)
    IN [panic |-> rest.panic \/ seller_cut.panic,
        revenue_cut |-> revenue_cut, seller_cut |-> seller_cut.v]

\* project::calculate_cuts
project_calculate_cuts(price, checks) ==
    LET seller_cut == NativeSub(price, PROJECT_REVENUE_CUT, checks)
    IN [panic |-> seller_cut.panic,
        revenue_cut |-> PROJECT_REVENUE_CUT, seller_cut |-> seller_cut.v]

(***************************************************************************)
(* The transaction templates.  Each serves one request: it queries the     *)
(* ledger, prepares inputs and outputs, and enters build_transaction_body  *)
(* (pc = "loop") or returns early (pc = "done").                           *)
(***************************************************************************)
\* an early return Err(..) of a template
Fail(err) ==
    /\ result' = Failed(err)
    /\ pc' = "done"
    /\ UNCHANGED <<call, fees, tries, sel>>

\* a panic inside a template
Panic ==
    /\ result' = Panicked
    /\ pc' = "done"
    /\ UNCHANGED <<call, fees, tries, sel>>

\* the call build_transaction_body(utxos, inputs, outputs, .., None, mint, witness, aux)
StartBuild(utxos, inputs, outputs, mint, witness, aux) ==
    /\ call' = [utxos |-> utxos, inputs |-> inputs, outputs |-> outputs, fee0 |-> -1,
                mint |-> mint, witness |-> witness, aux |-> aux]
    /\ fees' = InitialFees(-1, params)
    /\ tries' = 0
    /\ pc' = "loop"
    /\ UNCHANGED <<sel, result>>

\* create_value_with_single_nft, as the value of an output at addr holding coin
create_value_with_single_nft(addr, coin, asset) == TxOut(addr, coin, TRUE, OneOf(asset), 0)

\* nft_utxo.output().amount().multiasset().unwrap().len() > 1
NeedsLeftoverOutput(nft_utxo, asset) == MaLen(nft_utxo.ma) > 1

\* the outputs Marketplace::sell requests
SellOutputs(nft_utxo, seller_address, asset) ==
    <<create_value_with_single_nft(HolderAddr, SELL_DEPOSIT, asset)>>
    \o (IF NeedsLeftoverOutput(nft_utxo, asset)
        THEN <<TxOut(seller_address, nft_utxo.coin, TRUE,
                     MaSub(nft_utxo.ma, OneOf(asset)), 0)>>
        ELSE <<>>)

\* the outputs Marketplace::buy requests
BuyOutputs(nft_utxo, buyer_address, listing, cuts) ==
    <<TxOut(RevenueAddr, cuts.revenue_cut, FALSE, EmptyMA, 0),
      TxOut(listing.seller_address, cuts.seller_cut, FALSE, EmptyMA, 0),
      TxOut(buyer_address, nft_utxo.coin, nft_utxo.hasMa, nft_utxo.ma, 0)>>

\* the outputs Marketplace::cancel requests
CancelOutputs(nft_utxo, listing) ==
    <<TxOut(listing.seller_address, nft_utxo.coin, nft_utxo.hasMa, nft_utxo.ma, 0),
      TxOut(RevenueAddr, ONE_ADA, FALSE, EmptyMA, 0)>>

\* return_asset of Projects::buy
ReturnAsset(nft_utxo, asset) ==
    MaSub(IF nft_utxo.hasMa THEN nft_utxo.ma ELSE EmptyMA, OneOf(asset))

\* the outputs Projects::buy requests
ProjectBuyOutputs(nft_utxo, buyer_address, asset, listing, cuts) ==
    <<TxOut(RevenueAddr, cuts.revenue_cut, FALSE, EmptyMA, 0),
      TxOut(listing.seller_address, cuts.seller_cut, FALSE, EmptyMA, 0),
      create_value_with_single_nft(buyer_address, PROJECT_NFT_COIN, asset),
      TxOut(ProjectHolderAddr, nft_utxo.coin, TRUE, ReturnAsset(nft_utxo, asset), 0)>>

\* generate_asset_and_value: the minted asset with exactly its minimum coin
generate_asset_and_value(receiver, asset, min_utxo_value) ==
    LET value == create_value_with_single_nft(receiver, min_utxo_value, asset)
    IN set_output_lovelace(value, min_ada_required(value, min_utxo_value))

\* the outputs NftTransactionBuilder::create_transaction requests
MintOutputs(receiver, asset, min_utxo_value) ==
    <<generate_asset_and_value(receiver, asset, min_utxo_value),
      TxOut(TaxAddr,
            min_ada_required([coin |-> min_utxo_value, hasMa |-> FALSE, ma |-> EmptyMA],
                             min_utxo_value),
            FALSE, EmptyMA, 0)>>

\* create_mint: one unit of the asset
create_mint(asset) == [present |-> TRUE, asset |-> asset]

\* mutant: every draft is sized for one signature
WitnessSingle(vkey_count, native_scripts) ==
    [vkey_count |-> 1, native_scripts |-> native_scripts]

Witness(vkey_count, native_scripts) ==
    [vkey_count |-> vkey_count, native_scripts |-> native_scripts]

\* the assets and prices requests are made with
ReqAssets == {NFT}
SellPrices == {10 * ONE_ADA, U64_MAX}

Sell ==
    /\ pc = "idle"
    /\ \E seller_address \in Callers, asset \in ReqAssets, price \in SellPrices :
       \E seller_utxos \in query_user_address_utxo(ledger, seller_address) :
          LET f == find_nft(seller_utxos, asset)
          IN /\ req' = [op |-> "sell", caller |-> seller_address, asset |-> asset,
                        price |-> price]
             /\ effects' = {"query_utxo"}
             /\ sell_metadata' = NoListing
             /\ IF ~f.found
                THEN Fail(ErrNoSuchNft)
                ELSE StartBuild(f.remaining, <<f.nft>>,
                                SellOutputs(f.nft, seller_address, asset), NoMint,
                                Witness(SELL_VKEY_COUNT, FALSE),
                                create_sell_nft_metadata(seller_address, price))
    /\ UNCHANGED <<ledger, params, submitted, confirmed>>

Buy ==
    /\ pc = "idle"
    /\ \E buyer_address \in Callers, asset \in ReqAssets, checks \in BOOLEAN :
       \E buyer_utxos \in query_user_address_utxo(ledger, buyer_address),
          listing \in get_nft_details(ledger, HolderAddr, asset),
          holder_utxos \in query_user_address_utxo(ledger, HolderAddr) :
          LET f == find_nft(holder_utxos, asset)
              cuts == calculate_cuts(listing.price, checks)
          IN /\ req' = [op |-> "buy", caller |-> buyer_address, asset |-> asset,
                        price |-> 0]
             /\ effects' = {"query_utxo", "get_nft_details"}
             /\ sell_metadata' = listing
             /\ IF ~listing.some \/ ~f.found
                THEN Fail(ErrNoSuchNft)
                ELSE IF cuts.panic
                THEN Panic
                ELSE StartBuild(buyer_utxos, <<f.nft>>,
                                BuyOutputs(f.nft, buyer_address, listing, cuts), NoMint,
                                Witness(BUY_VKEY_COUNT, FALSE), NoAux)
    /\ UNCHANGED <<ledger, params, submitted, confirmed>>

Cancel ==
    /\ pc = "idle"
    /\ \E seller_address \in Callers, asset \in ReqAssets :
       \E listing \in get_nft_details(ledger, HolderAddr, asset) :
          /\ req' = [op |-> "cancel", caller |-> seller_address, asset |-> asset,
                     price |-> 0]
          /\ sell_metadata' = listing
          /\ IF ~listing.some
             THEN /\ effects' = {"get_nft_details"}
                  /\ Fail(ErrNoSuchNft)
             ELSE IF ~IsSeller(listing, seller_address)
             THEN /\ effects' = {"get_nft_details"}
                  /\ Fail(ErrNotSeller)
             ELSE \E seller_utxos \in query_user_address_utxo(ledger, seller_address),
                     holder_utxos \in query_user_address_utxo(ledger, HolderAddr) :
                     LET f == find_nft(holder_utxos, asset)
                     IN /\ effects' = {"get_nft_details", "query_utxo"}
                        /\ IF ~f.found
                           THEN Fail(ErrNoSuchNft)
                           ELSE StartBuild(seller_utxos, <<f.nft>>,
                                           CancelOutputs(f.nft, listing), NoMint,
                                           Witness(CANCEL_VKEY_COUNT, FALSE), NoAux)
    /\ UNCHANGED <<ledger, params, submitted, confirmed>>

ProjectBuy ==
    /\ pc = "idle"
    /\ \E buyer_address \in Users, asset \in ReqAssets, checks \in BOOLEAN :
       \E buyer_utxos \in query_user_address_utxo(ledger, buyer_address),
          listing \in get_nft_details(ledger, ProjectHolderAddr, asset),
          holder_utxos \in query_user_address_utxo(ledger, ProjectHolderAddr) :
          LET f == find_nft(holder_utxos, asset)
              cuts == project_calculate_cuts(listing.price, checks)
          IN /\ req' = [op |-> "project_buy", caller |-> buyer_address, asset |-> asset,
                        price |-> 0]
             /\ effects' = {"query_utxo", "get_nft_details"}
             /\ sell_metadata' = listing
             /\ IF ~listing.some \/ ~f.found
                THEN Fail(ErrNoSuchNft)
                ELSE IF cuts.panic
                THEN Panic
                ELSE StartBuild(buyer_utxos, <<f.nft>>,
                                ProjectBuyOutputs(f.nft, buyer_address, asset, listing, cuts),
                                NoMint, Witness(PROJECT_VKEY_COUNT, FALSE),
                                IF MaLen(ReturnAsset(f.nft, asset)) > 0
                                THEN create_sell_nft_metadata(listing.seller_address,
                                                              listing.price)
                                ELSE NoAux)
    /\ UNCHANGED <<ledger, params, submitted, confirmed>>

CreateNft ==
    /\ pc = "idle"
    /\ \E address \in Users, name \in AssetNames :
       \E utxos \in query_user_address_utxo(ledger, address) :
          /\ req' = [op |-> "mint", caller |-> address, asset |-> <<MintPolicy, name>>,
                     price |-> 0]
          /\ effects' = {"query_utxo"}
          /\ sell_metadata' = NoListing
          /\ StartBuild(utxos, <<>>,
                        MintOutputs(address, <<MintPolicy, name>>, params.minUtxo),
                        create_mint(<<MintPolicy, name>>),
                        Witness(MINT_VKEY_COUNT, TRUE), MintAux)
    /\ UNCHANGED <<ledger, params, submitted, confirmed>>

(***************************************************************************)
(* Specification Spec: one request served against a ledger snapshot.       *)
(* The snapshot holds the NFT in one UTXO, at its owner or listed at one   *)
(* of the two holders, besides the plain UTXOs of two users.               *)
(***************************************************************************)
Sibling == <<"P1", "B">>

NftCoins == {2 * ONE_ADA, 5 * ONE_ADA}

\* what the UTXO with the NFT holds: the NFT alone, or with one more asset of
\* the same policy, or of another policy
NftBundles ==
    {OneOf(NFT),
     [a \in {NFT, Sibling} |-> 1],
     [a \in {NFT, Token} |-> 1]}

ListingPrices == {0, 20 * ONE_ADA, 60 * ONE_ADA, U64_MAX}

AlicePools ==
    {{},
     {Utxo(2, "alice", 5 * ONE_ADA, FALSE, EmptyMA, 0)},
     {Utxo(2, "alice", 3 * ONE_ADA, TRUE, OneOf(Token), 0),
      Utxo(3, "alice", 3 * ONE_ADA, FALSE, EmptyMA, 0)},
     {Utxo(2, "alice", 1200000, TRUE, OneOf(Token), 0)},
     {Utxo(2, "alice", 2100000, FALSE, EmptyMA, 0)}}

BobPool ==
    {Utxo(4, "bob", 30 * ONE_ADA, FALSE, EmptyMA, 0),
     Utxo(5, "bob", 70 * ONE_ADA, FALSE, EmptyMA, 0)}

\* the output a sell transaction left at a holder, with the metadata db-sync
\* stored for that transaction
Listed(holder, coin, bundle, seller, price) ==
    [Utxo(1, holder, coin, TRUE, bundle, 0)
        EXCEPT !.meta = MetaJson(create_sell_nft_metadata(seller, price))]

NftUtxos ==
    {Utxo(1, "alice", c, TRUE, m, 0) : c \in NftCoins, m \in NftBundles}
    \cup {Listed(h, x[1], x[2], "alice", x[3]) :
            h \in {HolderAddr, ProjectHolderAddr},
            x \in NftCoins \X NftBundles \X ListingPrices}

\* two units of the asset listed by two sellers, each in its own holder UTXO
TwoListings ==
    {Listed(HolderAddr, 2 * ONE_ADA, OneOf(NFT), "alice", 20 * ONE_ADA),
     [Listed(HolderAddr, 2 * ONE_ADA, OneOf(NFT), "bob", 60 * ONE_ADA) EXCEPT !.id = 6]}

\* the UTXOs of a snapshot that hold the asset
NftHoldings == {{n} : n \in NftUtxos} \cup {TwoListings}

Init ==
    /\ \E n \in NftHoldings, a \in AlicePools : ledger = n \cup a \cup BobPool
    /\ params \in TemplateParams
    /\ req = NoReq
    /\ pc = "idle"
    /\ call = NoCall
    /\ fees = 0
    /\ tries = 0
    /\ sel = NoSel
    /\ result = NoResult
    /\ effects = {}
    /\ sell_metadata = NoListing
    /\ submitted = NoTx
    /\ confirmed = <<>>

\* the witness sets a wallet posts with a transaction: nothing, its own
\* signature, or its own signature after the signatures the transaction has
SuppliedWitnesses(tx, caller) == {<<>>, <<caller>>, tx.vkeys \o <<caller>>}

\* combine_witness_set: every supplied vkey witness is added to the witnesses the
\* transaction has (Vkeywitnesses::add appends)
combine_witness_set(tx, witness_set) == [tx EXCEPT !.vkeys = @ \o witness_set]

\* POST /sign
SignTransaction ==
    /\ pc = "done"
    /\ result.kind = "ok"
    /\ \E witness_set \in SuppliedWitnesses(result.tx, req.caller) :
          submitted' = combine_witness_set(result.tx, witness_set)
    /\ pc' = "submitted"
    /\ effects' = effects \cup {"submit_tx"}
    /\ UNCHANGED <<ledger, params, req, call, fees, tries, sel, result, sell_metadata,
                   confirmed>>

Next == Sell \/ Buy \/ Cancel \/ ProjectBuy \/ CreateNft \/ Iterate \/ SignTransaction

Spec == Init /\ [][Next]_vars

(***************************************************************************)
(* Properties of the selector and of the fee loop (SpecSel)                *)
(***************************************************************************)
RECURSIVE SumCoin(_)
SumCoin(seq) == IF seq = <<>> THEN 0 ELSE Head(seq).coin + SumCoin(Tail(seq))

SelectionSucceeded == sel.ran /\ sel.r.ok

\* C1: after every successful run of the selector the coin of all transaction
\* inputs (mandatory and consumed) equals the coin of all outputs plus the fee.
C1_CoinBalance ==
    SelectionSucceeded =>
        SumCoin(sel.r.inputs) = SumCoin(sel.r.outputs) + sel.fee

\* a success that spent a mandatory input and two candidates, one with assets
C1_Witness ==
    /\ SelectionSucceeded
    /\ Len(call.inputs) = 1
    /\ sel.r.popped >= 2
    /\ \E i \in DOMAIN sel.r.inputs : i > 1 /\ sel.r.inputs[i].hasMa
    /\ Len(call.outputs) = 2

\* C2: after every successful run of the selector every output (normalized,
\* asset-preserving, change) holds at least the minimum coin for its assets.
C2_MinCoinRespected ==
    SelectionSucceeded =>
        \A i \in DOMAIN sel.r.outputs :
            sel.r.outputs[i].coin >= min_ada_required(sel.r.outputs[i], params.minUtxo)

\* a success with a raised requested output, a re-issued asset output and change
C2_Witness ==
    /\ SelectionSucceeded
    /\ \E i \in DOMAIN call.outputs : call.outputs[i].coin < sel.r.outputs[i].coin
    /\ \E i \in DOMAIN sel.r.inputs : i > Len(call.inputs) /\ sel.r.inputs[i].hasMa
    /\ Len(sel.r.outputs) >= Len(call.outputs) + 2

\* C4: a returned body records exactly the fee min_fee computes for the draft
\* made of that body, the placeholder witnesses and the auxiliary data.
C4_ReturnedFeeIsComputedFee ==
    result.kind = "ok" =>
        LET f == min_fee(result.tx.body, call.witness, call.aux, params)
        IN f.ok /\ result.tx.body.fee = f.v

\* a body returned after at least one corrected guess
C4_Witness == result.kind = "ok" /\ tries >= 3 /\ Len(result.tx.body.inputs) >= 2

\* C5: the loop runs the selector at most MAX_TRIES times, is never stuck inside
\* the loop (an unfinished build can take its next iteration), and ends with
\* BalanceInsufficient and no body when the last of the MAX_TRIES guesses still
\* differs from the computed fee.
C5_BoundedLoop ==
    /\ tries <= MAX_TRIES
    /\ pc = "loop" => (tries < MAX_TRIES /\ ~LoopExhausted(tries))
    /\ (pc = "done" /\ SelectionSucceeded /\ sel.calc # sel.fee) =>
           /\ tries = MAX_TRIES
           /\ result = Failed(ErrBalance)

\* ten selections, each successful, none with the computed fee equal to the guess
C5_Witness ==
    /\ pc = "done"
    /\ tries = MAX_TRIES
    /\ SelectionSucceeded
    /\ sel.calc # sel.fee
    /\ result.err = ErrBalance

\* C6 as stated: pool coin below the required total makes the selection fail
\* with BalanceInsufficient whatever the mandatory inputs are.
C6_Original ==
    (sel.ran /\ calculate_output_amount(call.outputs, sel.fee, params.minUtxo).ok
       /\ SumCoin(call.utxos) < sel.r.total)
    => (~sel.r.ok /\ sel.r.err = ErrBalance /\ result.kind # "ok")

\* C6 amended: pool coin plus mandatory input coin below the required total
\* (computed without overflow) makes the selection fail with BalanceInsufficient
\* and no transaction.
C6_Depletion ==
    (sel.ran /\ calculate_output_amount(call.outputs, sel.fee, params.minUtxo).ok
       /\ SumCoin(call.utxos) + SumCoin(call.inputs) < sel.r.total)
    => (~sel.r.ok /\ sel.r.err = ErrBalance /\ result = Failed(ErrBalance))

\* a non-empty pool and a mandatory input that together fall short
C6_Witness ==
    /\ sel.ran
    /\ Len(call.utxos) >= 2
    /\ Len(call.inputs) = 1
    /\ SumCoin(call.utxos) + SumCoin(call.inputs) < sel.r.total
    /\ sel.r.popped = Len(call.utxos)
    /\ result = Failed(ErrBalance)

(***************************************************************************)
(* Properties of the templates (Spec)                                      *)
(***************************************************************************)
\* units of an asset in a sequence of inputs or outputs
RECURSIVE Quantity(_, _)
Quantity(seq, asset) ==
    IF seq = <<>> THEN 0
    ELSE (IF Head(seq).hasMa /\ asset \in DOMAIN Head(seq).ma THEN Head(seq).ma[asset] ELSE 0)
         + Quantity(Tail(seq), asset)

Minted(body, asset) == IF body.mint.present /\ body.mint.asset = asset THEN 1 ELSE 0

\* C3: for every successful build by a template and every asset (policy, name),
\* the quantity in the transaction's inputs plus the minted quantity equals the
\* quantity in its outputs.
C3_AssetConservation ==
    result.kind = "ok" =>
        \A asset \in AssetIds :
            Quantity(result.tx.body.inputs, asset) + Minted(result.tx.body, asset)
                = Quantity(result.tx.body.outputs, asset)

\* C7: a cancel whose caller is not the seller recorded in the listing has ended
\* with the not-seller error, without a UTXO query, a selection, a holder
\* signature or a transaction.
C7_CancelByNonSeller ==
    (req.op = "cancel" /\ sell_metadata.some /\ sell_metadata.seller_address # req.caller)
    => /\ pc = "done"
       /\ result = Failed(ErrNotSeller)
       /\ effects \cap {"query_utxo", "select", "holder_sign"} = {}
       /\ call = NoCall
       /\ tries = 0

C7_Witness ==
    /\ req.op = "cancel"
    /\ req.caller = "bob"
    /\ sell_metadata.some
    /\ sell_metadata.seller_address = "alice"
    /\ result.kind = "err"

\* C8: for every price p read from a listing, buy requests a revenue output of
\* max(1 ADA, 2% of p) (2% in whole hundredths, as integer arithmetic gives it)
\* and a seller output of p minus that cut plus 2 ADA; the two sum to p + 2 ADA.
C8_CutsForEveryPrice ==
    (req.op = "buy" /\ sell_metadata.some)
    => LET p == sell_metadata.price
           cut == Max(ONE_ADA, 2 * (p \div 100))
       IN /\ Len(call.outputs) = 3
          /\ call.outputs[1] = TxOut(RevenueAddr, cut, FALSE, EmptyMA, 0)
          /\ call.outputs[2] = TxOut(sell_metadata.seller_address, p - cut + 2 * ONE_ADA,
                                     FALSE, EmptyMA, 0)
          /\ call.outputs[1].coin + call.outputs[2].coin = p + 2 * ONE_ADA

\* C9: sell by a seller whose only UTXO holds 5 ADA and the NFT, at price 10 ADA,
\* succeeds; the transaction locks the NFT at the holder address, has no
\* leftover-asset output, and its auxiliary data encodes the price and the seller.
C9_SellScenario ==
    (/\ req = [op |-> "sell", caller |-> "alice", asset |-> NFT, price |-> 10 * ONE_ADA]
     /\ UtxosAt(ledger, "alice") = {Utxo(1, "alice", 5 * ONE_ADA, TRUE, OneOf(NFT), 0)}
     /\ pc = "done")
    => /\ result.kind = "ok"
       /\ \E i \in DOMAIN result.tx.body.outputs :
             /\ result.tx.body.outputs[i].addr = HolderAddr
             /\ HoldsAsset(result.tx.body.outputs[i], NFT)
       /\ \A i \in DOMAIN result.tx.body.outputs :
             result.tx.body.outputs[i].addr = "alice" => ~result.tx.body.outputs[i].hasMa
       /\ try_from_value(MetaJson(result.tx.aux))
             = [some |-> TRUE, seller_address |-> "alice", price |-> 10 * ONE_ADA]

\* C10: no request ends in a panic.
C10_NoPanic == result.kind # "panic"

\* the error the latest iteration of build_transaction_body ran into, "" if none
IterationError ==
    IF ~sel.ran THEN ""
    ELSE IF ~sel.r.ok THEN sel.r.err
    ELSE IF \/ ~BuildFits(BuildBody(sel.r, sel.fee, call), call, params)
            \/ ~min_fee(BuildBody(sel.r, sel.fee, call), call.witness, call.aux, params).ok
    THEN ErrJs
    ELSE ""

\* C11: when an iteration of build_transaction_body ran into an error of the
\* normalizer, the selector, the builder or the fee function, the request has
\* ended with that error: no later iteration, no body, no transaction, no
\* holder signature.
C11_ErrorPropagation ==
    IterationError # ""
    => /\ pc = "done"
       /\ result = Failed(IterationError)
       /\ result.tx = NoTx
       /\ "holder_sign" \notin effects

\* a cancel whose second iteration fails in the selector, after a first one
\* that selected successfully
C11_Witness ==
    /\ req.op = "cancel"
    /\ tries = 2
    /\ IterationError = ErrBalance
    /\ result = Failed(ErrBalance)

\* C12: build_transaction_body run again with the same arguments and the initial
\* fee set to the fee f it returned ends in its first iteration and returns the
\* same body: fee f, the same inputs, the same outputs.
C12_Idempotence ==
    [][(req.op = "rebuild" /\ pc = "loop")
       => /\ pc' = "done"
          /\ tries' = 1
          /\ result' = result
          /\ result'.tx.body.fee = call.fee0]_vars

\* a second run that has ended, after a first run that needed retries
C12_Witness ==
    /\ req.op = "rebuild"
    /\ pc = "done"
    /\ result.kind = "ok"
    /\ call.fee0 = result.tx.body.fee
    /\ Len(result.tx.body.inputs) >= 2

\* the holder UTXOs of the listing the request read: those whose sale metadata
\* is the sell_metadata the request works with
ListingUtxos ==
    {u \in ListingRows(ledger, HolderAddr, req.asset) : try_from_value(u.meta) = sell_metadata}

\* C13: every transaction built by buy or cancel for a listing has the listing's
\* holder UTXO among its inputs (so any two of them, built from the same
\* snapshot, spend the same UTXO and the ledger accepts at most one).
C13_SpendsListingUtxo ==
    (req.op \in {"buy", "cancel"} /\ result.kind = "ok")
    => \A u \in ListingUtxos :
          \E i \in DOMAIN result.tx.body.inputs : result.tx.body.inputs[i] = u

\* C15: in every transaction built by a template, whatever the caller's address,
\* no UTXO occurs twice among the transaction inputs (so the mandatory NFT UTXO
\* is never also consumed as a candidate and its coin is counted once).
C15_InputsDistinct ==
    (req.op \in {"sell", "buy", "cancel", "project_buy", "mint"} /\ result.kind = "ok")
    => \A i, j \in DOMAIN result.tx.body.inputs :
          result.tx.body.inputs[i].id = result.tx.body.inputs[j].id => i = j

(***************************************************************************)
(* Signing, submission and confirmation: POST /sign merges the signatures  *)
(* a wallet supplies into the transaction a template returned and hands    *)
(* the result to the submitter; once the ledger accepts it, db-sync shows  *)
(* its inputs spent and its outputs unspent.                               *)
(***************************************************************************)

MaxConfirmed == 2

\* the ledger rules a submitted transaction meets to be accepted: its inputs are
\* unspent and distinct, the owner of every input has signed, and coin and
\* every asset are preserved
LedgerAccepts(tx, l) ==
    LET ins == tx.body.inputs
        outs == tx.body.outputs
    IN /\ ins # <<>>
       /\ \A i \in DOMAIN ins : ins[i] \in l
       /\ \A i, j \in DOMAIN ins : ins[i].id = ins[j].id => i = j
       /\ \A i \in DOMAIN ins : \E k \in DOMAIN tx.vkeys : tx.vkeys[k] = ins[i].addr
       /\ SumCoin(ins) = SumCoin(outs) + tx.body.fee
       /\ \A a \in AssetIds : Quantity(ins, a) + Minted(tx.body, a) = Quantity(outs, a)

\* the first free output id
NextId(l) == 1 + Max(0, CHOOSE m \in {u.id : u \in l} \cup {0} :
                          \A u \in l : u.id <= m)

\* the unspent outputs after a transaction: its inputs are gone, its outputs
\* are there, each with the metadata of the transaction
ApplyTx(tx, l) ==
    (l \ {tx.body.inputs[i] : i \in DOMAIN tx.body.inputs})
    \cup {[id |-> NextId(l) + i - 1,
           addr |-> tx.body.outputs[i].addr,
           coin |-> tx.body.outputs[i].coin,
           hasMa |-> tx.body.outputs[i].hasMa,
           ma |-> tx.body.outputs[i].ma,
           dh |-> tx.body.outputs[i].dh,
           meta |-> MetaJson(tx.aux)] : i \in DOMAIN tx.body.outputs}

\* the server is ready for the next request
Ready ==
    /\ req' = NoReq
    /\ pc' = "idle"
    /\ call' = NoCall
    /\ fees' = 0
    /\ tries' = 0
    /\ sel' = NoSel
    /\ result' = NoResult
    /\ effects' = {}
    /\ sell_metadata' = NoListing
    /\ submitted' = NoTx

\* the submitted transaction is accepted and db-sync has recorded it
Confirm ==
    /\ pc = "submitted"
    /\ Len(confirmed) < MaxConfirmed
    /\ LedgerAccepts(submitted, ledger)
    /\ ledger' = ApplyTx(submitted, ledger)
    /\ confirmed' = Append(confirmed, req.op)
    /\ Ready
    /\ UNCHANGED params

\* the response has been sent; a returned transaction is not submitted, or the
\* submitted one is rejected
Return ==
    /\ pc \in {"done", "submitted"}
    /\ Ready
    /\ UNCHANGED <<ledger, params, confirmed>>

\* the asset unlisted at alice or listed by alice, alone or with a second unit
\* of the same asset at bob
LifeLedgers ==
    {{n} \cup b \cup {Utxo(2, "alice", 5 * ONE_ADA, FALSE, EmptyMA, 0)} \cup BobPool :
        n \in {Utxo(1, "alice", 2 * ONE_ADA, TRUE, OneOf(NFT), 0),
               Listed(HolderAddr, 2 * ONE_ADA, OneOf(NFT), "alice", 20 * ONE_ADA)},
        b \in {{}, {Utxo(6, "bob", 2 * ONE_ADA, TRUE, OneOf(NFT), 0)}}}

InitLife ==
    /\ ledger \in LifeLedgers
    /\ params = MainnetParams
    /\ req = NoReq
    /\ pc = "idle"
    /\ call = NoCall
    /\ fees = 0
    /\ tries = 0
    /\ sel = NoSel
    /\ result = NoResult
    /\ effects = {}
    /\ sell_metadata = NoListing
    /\ submitted = NoTx
    /\ confirmed = <<>>

NextLife == Sell \/ Buy \/ Cancel \/ Iterate \/ SignTransaction \/ Confirm \/ Return

SpecLife == InitLife /\ [][NextLife]_vars

\* the latest confirmed transaction for the asset is a buy or a cancel
ListingConsumed ==
    confirmed # <<>> /\ confirmed[Len(confirmed)] \in {"buy", "cancel"}

\* C14: once a buy or cancel transaction has been confirmed and no sell has been
\* confirmed since, a buy or cancel request for the asset fails with the
\* no-such-listing error and builds no transaction.
C14_NoListingAfterConsumed ==
    (ListingConsumed /\ req.op \in {"buy", "cancel"} /\ pc # "idle")
    => /\ pc = "done"
       /\ result = Failed(ErrNoSuchNft)
       /\ call = NoCall

\* C16: the transaction combine_witness_set returns holds every signature the
\* transaction already had, and no signature more than once, whatever witness
\* set is supplied.
C16_CombinedWitnesses ==
    pc = "submitted"
    => /\ \A k \in DOMAIN result.tx.vkeys :
             \E j \in DOMAIN submitted.vkeys : submitted.vkeys[j] = result.tx.vkeys[k]
       /\ \A i, j \in DOMAIN submitted.vkeys :
             submitted.vkeys[i] = submitted.vkeys[j] => i = j

HasPlaceholder(vkeys) == \E k \in DOMAIN vkeys : vkeys[k] = PRIVATE_KEY

\* C17: no transaction a template returns, and no transaction handed to the
\* submitter, holds a signature made with the placeholder key.
C17_NoPlaceholderSignature ==
    /\ ~HasPlaceholder(result.tx.vkeys)
    /\ ~HasPlaceholder(submitted.vkeys)

\* a buy whose last iteration made two placeholder signatures has been returned
\* with the holder's signature and handed to the submitter
C17_Witness ==
    /\ req.op = "buy"
    /\ pc = "submitted"
    /\ Len(sel.witness_set.vkeys) = BUY_VKEY_COUNT
    /\ HasPlaceholder(sel.witness_set.vkeys)
    /\ result.tx.vkeys = <<"holder">>
    /\ Len(submitted.vkeys) >= 2

\* the candidates the latest run of the selector consumed, in order
Consumed == SubSeq(sel.r.inputs, Len(call.inputs) + 1, Len(sel.r.inputs))

\* the outputs it added between the requested outputs and the change output
Reissued == SubSeq(sel.r.outputs, Len(call.outputs) + 1, Len(sel.r.outputs) - 1)

\* the outputs expected for the asset-bearing ones of a sequence of candidates
RECURSIVE ExpectedReissue(_)
ExpectedReissue(seq) ==
    IF seq = <<>> THEN <<>>
    ELSE (IF Head(seq).hasMa
          THEN <<[addr |-> Head(seq).addr,
                  coin |-> min_ada_required(OutputOf(Head(seq)), params.minUtxo),
                  hasMa |-> TRUE, ma |-> Head(seq).ma, dh |-> Head(seq).dh]>>
          ELSE <<>>) \o ExpectedReissue(Tail(seq))

\* the coin expected to be counted for a sequence of candidates
RECURSIVE ExpectedGain(_)
ExpectedGain(seq) ==
    IF seq = <<>> THEN 0
    ELSE (IF Head(seq).hasMa
          THEN Head(seq).coin - min_ada_required(OutputOf(Head(seq)), params.minUtxo)
          ELSE Head(seq).coin) + ExpectedGain(Tail(seq))

\* C18: after a successful selection every consumed candidate is a transaction
\* input; each one carrying assets has an output at its address with exactly its
\* assets and the minimum coin for them, and counts for its coin minus that
\* minimum; each one without assets counts for its whole coin and has no output.
C18_AssetCandidates ==
    SelectionSucceeded
    => /\ Len(Consumed) = sel.r.popped
       /\ \A i \in DOMAIN Consumed : \E j \in DOMAIN call.utxos : call.utxos[j] = Consumed[i]
       /\ Reissued = ExpectedReissue(Consumed)
       /\ sel.r.selected = SumCoin(call.inputs) + ExpectedGain(Consumed)

\* a selection that consumed a candidate with assets and one without
C18_Witness ==
    /\ SelectionSucceeded
    /\ \E i, j \in DOMAIN Consumed : Consumed[i].hasMa /\ ~Consumed[j].hasMa
    /\ Len(Reissued) = 1

\* the stop test as claimed: the total is covered and the leftover is zero or
\* at least the minimum coin of a bare change output
ClaimedStop(selected, total) ==
    /\ selected >= total
    /\ (selected - total = 0 \/ selected - total >= ChangeFloor(params.minUtxo))

\* the selected amount after the first k consumed candidates
SelectedAfter(k) == SumCoin(call.inputs) + ExpectedGain(SubSeq(Consumed, 1, k))

\* C19: the selector succeeds at the first consumed candidate after which the
\* selected amount covers the total with a leftover of zero or of at least the
\* change floor, and at no earlier or later one; it fails for an empty pool only
\* if no such point was met.
C19_StopsAtFirstPoint ==
    (sel.ran /\ (sel.r.ok \/ sel.r.err = ErrBalance))
    => /\ \A k \in 1..(Len(Consumed) - (IF sel.r.ok THEN 1 ELSE 0)) :
             ~ClaimedStop(SelectedAfter(k), sel.r.total)
       /\ sel.r.ok => ClaimedStop(sel.r.selected, sel.r.total)

\* the outputs calculate_output_amount returned to the latest run of the selector
Normalized == SubSeq(sel.r.outputs, 1, Len(call.outputs))

\* the normalizer returned (the run succeeded or failed later for lack of coin)
NormalizerReturned == sel.ran /\ (sel.r.ok \/ sel.r.err = ErrBalance)

\* C20: calculate_output_amount returns as many outputs as requested, in the
\* same order, each with address, assets and data hash unchanged and with the
\* larger of the requested coin and the minimum coin of its value, and a total
\* equal to the fee plus the coin of the returned outputs.
C20_NormalizedOutputs ==
    NormalizerReturned
    => /\ Len(sel.r.outputs) >= Len(call.outputs)
       /\ \A i \in DOMAIN call.outputs :
             /\ Normalized[i].addr = call.outputs[i].addr
             /\ Normalized[i].hasMa = call.outputs[i].hasMa
             /\ Normalized[i].ma = call.outputs[i].ma
             /\ Normalized[i].dh = call.outputs[i].dh
             /\ Normalized[i].coin =
                   Max(call.outputs[i].coin,
                       min_ada_required(call.outputs[i], params.minUtxo))
       /\ sel.r.total = sel.fee + SumCoin(Normalized)

\* two requested outputs, the second one below its minimum and with a data hash,
\* were returned in order, the first as requested and the second raised
C20_Witness ==
    /\ NormalizerReturned
    /\ Len(call.outputs) = 2
    /\ Normalized[1] = call.outputs[1]
    /\ Normalized[2].coin > call.outputs[2].coin
    /\ Normalized[2].dh = 1

\* the assets of the UTXO a sell spends other than the unit being listed
SellLeftover == MaSub(call.inputs[1].ma, OneOf(req.asset))

\* C21: the outputs sell requests hold, after the holder output, one output to
\* the seller with every other asset of the NFT UTXO whenever that UTXO holds
\* anything besides the listed unit, and no such output otherwise.
C21_SellLeftoverOutput ==
    (req.op = "sell" /\ call # NoCall)
    => IF DOMAIN SellLeftover # {}
       THEN /\ Len(call.outputs) = 2
            /\ call.outputs[2].addr = req.caller
            /\ call.outputs[2].ma = SellLeftover
       ELSE Len(call.outputs) = 1

\* the last output of the latest run of the selector
LastOutput == sel.r.outputs[Len(sel.r.outputs)]

\* C22 (first part, and the caller's address): a successful selection adds to the
\* requested and re-issued outputs exactly one output, the last, holding coin
\* only, of value selected minus total, at the address of the candidate consumed
\* last; in sell, buy and cancel that address is the caller's.
C22_ChangeOutput ==
    SelectionSucceeded
    => /\ Len(sel.r.outputs) = Len(call.outputs) + Len(ExpectedReissue(Consumed)) + 1
       /\ Consumed # <<>>
       /\ LastOutput = [addr |-> Consumed[Len(Consumed)].addr,
                        coin |-> sel.r.selected - sel.r.total,
                        hasMa |-> FALSE, ma |-> EmptyMA, dh |-> 0]
       /\ req.op \in {"sell", "buy", "cancel"} => LastOutput.addr = req.caller

\* a buy by bob succeeded with change to bob
C22_Witness ==
    /\ SelectionSucceeded
    /\ req.op = "buy" /\ req.caller = "bob"
    /\ result.kind = "ok"
    /\ LastOutput.addr = "bob" /\ LastOutput.coin > 0

\* C22 as stated: moreover the change address of sell, buy and cancel is never
\* the holder or the revenue address.
C22_Original ==
    C22_ChangeOutput
    /\ ((SelectionSucceeded /\ req.op \in {"sell", "buy", "cancel"})
        => LastOutput.addr \notin {HolderAddr, RevenueAddr})

\* the candidates of the pool the latest run of the selector did not consume
Unconsumed ==
    {j \in DOMAIN call.utxos : \A i \in DOMAIN Consumed : Consumed[i] # call.utxos[j]}

\* the loop's stop test on the amount selected after the first k candidates
StopsAfter(k) ==
    /\ SelectedAfter(k) >= sel.r.total
    /\ SelectedAfter(k) - sel.r.total >= ChangeFloor(params.minUtxo)

GainOf ==
    [j \in DOMAIN call.utxos |->
        IF call.utxos[j].hasMa
        THEN call.utxos[j].coin - min_ada_required(OutputOf(call.utxos[j]), params.minUtxo)
        ELSE call.utxos[j].coin]

\* the subsets of the pool that can be consumed (no asset-bearing candidate
\* below its minimum) and after which the stop condition as claimed holds
Sufficient ==
    {S \in SUBSET DOMAIN call.utxos :
        /\ \A j \in S : GainOf[j] >= 0
        /\ ClaimedStop(SumCoin(call.inputs) + SumOver(S, GainOf), sel.r.total)}

\* C24: after a successful selection no subset of the pool with fewer UTXOs than
\* were consumed satisfies the stop condition.
C24_FewestInputs ==
    SelectionSucceeded => \A S \in Sufficient : Cardinality(S) >= Len(Consumed)

\* the price a buy read makes price - revenue_cut or the addition of the deposit
\* leave the unsigned 64-bit range
CutsLeaveRange ==
    LET p == sell_metadata.price
        cut == Max(ONE_ADA, 2 * (p \div 100))
    IN p < cut \/ p - cut + 2 * ONE_ADA > U64_MAX

\* C25: every amount of the latest selection is within the unsigned 64-bit
\* range, and a buy whose cuts would leave that range has ended with an error
\* and requested no build.
C25_NoWrappedValue ==
    /\ sel.ran
       => /\ sel.r.selected \in 0..U64_MAX
          /\ sel.r.total \in 0..U64_MAX
          /\ \A i \in DOMAIN sel.r.outputs : sel.r.outputs[i].coin \in 0..U64_MAX
    /\ (req.op = "buy" /\ sell_metadata.some /\ CutsLeaveRange)
       => (result.kind = "err" /\ call = NoCall)

\* the latest iteration of a template's build made a draft for the fee
DraftMade ==
    /\ req.op \in {"sell", "buy", "cancel", "project_buy", "mint"}
    /\ sel.ran
    /\ sel.witness_set.vkeys # <<>>

\* the signers the transaction of the latest iteration requires: the owners of
\* its inputs and, for mint, the policy key
RequiredSigners ==
    Cardinality({sel.r.inputs[i].addr : i \in DOMAIN sel.r.inputs})
    + (IF req.op = "mint" THEN 1 ELSE 0)

\* the draft holds 1 placeholder signature for sell and 2 for the other
\* templates, and the native script for mint
DraftCounts ==
    /\ \A k \in DOMAIN sel.witness_set.vkeys : sel.witness_set.vkeys[k] = PRIVATE_KEY
    /\ Len(sel.witness_set.vkeys) = (IF req.op = "sell" THEN 1 ELSE 2)
    /\ sel.witness_set.native_scripts = (req.op = "mint")

\* C26 (for callers other than the holder): the draft of every template holds
\* the fixed number of placeholder signatures, and that number is the number of
\* signers the transaction requires.
C26_DraftSignatures ==
    DraftMade
    => /\ DraftCounts
       /\ req.caller # HolderAddr => Len(sel.witness_set.vkeys) = RequiredSigners

\* a cancel by the seller whose draft holds two placeholder signatures for the
\* holder's and the seller's inputs
C26_Witness ==
    /\ DraftMade
    /\ req.op = "cancel" /\ req.caller = "alice"
    /\ result.kind = "ok"
    /\ Len(sel.witness_set.vkeys) = 2
    /\ RequiredSigners = 2

\* C26 as stated: for every caller the number of placeholder signatures is the
\* number of signers the transaction requires.
C26_Original ==
    DraftMade => (DraftCounts /\ Len(sel.witness_set.vkeys) = RequiredSigners)

\* C27: when build_transaction_body is called without a fee, its first guess is
\* at least the fee of the body it returns.
C27_FirstGuessIsUpperBound ==
    (result.kind = "ok" /\ call.fee0 = -1)
    => calculate_maximum_fees(params) >= result.tx.body.fee

\* the normalizer and the sum of the mandatory inputs of the latest run succeeded
SelectionStarted ==
    /\ sel.ran
    /\ calculate_output_amount(call.outputs, sel.fee, params.minUtxo).ok
    /\ SeedSelected(call.inputs).ok

\* the mandatory inputs alone pass the stop test of the latest run
MandatoryCovers ==
    /\ SumCoin(call.inputs) >= sel.r.total
    /\ SumCoin(call.inputs) - sel.r.total >= ChangeFloor(params.minUtxo)

\* C28: a successful selection has consumed at least one candidate; with an
\* empty pool the selector fails with BalanceInsufficient, whatever the mandatory
\* inputs hold; every transaction built by sell, buy or cancel spends a UTXO at
\* the caller's address.
C28_ConsumesACandidate ==
    /\ SelectionSucceeded => (sel.r.popped >= 1 /\ Len(Consumed) >= 1)
    /\ (SelectionStarted /\ call.utxos = <<>>) => (~sel.r.ok /\ sel.r.err = ErrBalance)
    /\ (req.op \in {"sell", "buy", "cancel"} /\ result.kind = "ok")
       => \E i \in DOMAIN result.tx.body.inputs :
             result.tx.body.inputs[i].addr = req.caller

\* a sell with an empty pool failed although the NFT UTXO alone covers the total
C28_Witness ==
    /\ req.op = "sell"
    /\ SelectionStarted
    /\ call.utxos = <<>>
    /\ MandatoryCovers
    /\ result = Failed(ErrBalance)

\* the pool in the order the selector pops it
PopOrder ==
    LET sorted == sort_by_coin(call.utxos)
    IN [k \in 1..Len(sorted) |-> sorted[Len(sorted) + 1 - k]]

\* a candidate that carries assets and less coin than the minimum for them
BelowMinimum(u) == u.hasMa /\ u.coin < min_ada_required(OutputOf(u), params.minUtxo)

\* the stop test of the latest run holds after the first k candidates popped
StopsAfterPopping(k) ==
    LET selected == SumCoin(call.inputs) + ExpectedGain(SubSeq(PopOrder, 1, k))
    IN selected >= sel.r.total /\ selected - sel.r.total >= ChangeFloor(params.minUtxo)

\* the positions in pop order the selector reaches at which the candidate is
\* asset-bearing and below its minimum
ReachedBelowMinimum ==
    {m \in DOMAIN PopOrder :
        /\ BelowMinimum(PopOrder[m])
        /\ \A k \in 1..(m - 1) : ~BelowMinimum(PopOrder[k]) /\ ~StopsAfterPopping(k)}

\* C29: when the selector pops an asset-bearing candidate with less coin than
\* the minimum for its assets, the selection fails there with
\* BalanceInsufficient and the build returns that error and no transaction,
\* whatever the candidates after it hold.
C29_AssetCandidateBelowMinimum ==
    (SelectionStarted /\ ReachedBelowMinimum # {})
    => /\ ~sel.r.ok
       /\ sel.r.err = ErrBalance
       /\ \A m \in ReachedBelowMinimum : Len(Consumed) = m - 1
       /\ result = Failed(ErrBalance)

\* the selection failed at an asset-bearing candidate below its minimum although
\* the candidates after it cover the total
C29_Witness ==
    /\ SelectionStarted
    /\ \E m \in ReachedBelowMinimum :
          /\ m < Len(PopOrder)
          /\ \A k \in (m + 1)..Len(PopOrder) : ~PopOrder[k].hasMa
          /\ SumCoin(call.inputs) + SumCoin(SubSeq(PopOrder, m + 1, Len(PopOrder)))
                >= sel.r.total + ChangeFloor(params.minUtxo)
    /\ result = Failed(ErrBalance)

\* the UTXOs sell queried at the seller's address, and how often one of them
\* occurs in what find_nft returned to it (the NFT UTXO and the remaining list)
SellerUtxos == UtxosAt(ledger, req.caller)

Occurrences(u) ==
    Cardinality({i \in DOMAIN call.inputs : call.inputs[i] = u})
    + Cardinality({i \in DOMAIN call.utxos : call.utxos[i] = u})

\* C30: when sell's find_nft succeeds the returned UTXO holds the asset, no
\* remaining UTXO holds it, and every UTXO of the list given to it is the
\* returned one or in the remaining list, once; when no UTXO of the list holds
\* the asset the request fails with the no-such-NFT error.
C30_FindNftSplit ==
    req.op = "sell"
    => IF \E u \in SellerUtxos : HoldsAsset(u, req.asset)
       THEN /\ Len(call.inputs) = 1
            /\ HoldsAsset(call.inputs[1], req.asset)
            /\ \A i \in DOMAIN call.utxos : ~HoldsAsset(call.utxos[i], req.asset)
            /\ \A u \in SellerUtxos : Occurrences(u) = 1
       ELSE result = Failed(ErrNoSuchNft) /\ call = NoCall

====
